---- MODULE Spec2Model ----
(***************************************************************************)
(* Model of st.py, the PDF table-of-contents extractor:                    *)
(*   - parse_toc, the line parser with multi-line buffering;               *)
(*   - find_toc_page_indices, the candidate page detector;                 *)
(*   - the range expansion and the extraction steps of main();             *)
(*   - the Streamlit session state driven by the UI events of main().      *)
(* A text is a sequence of characters; a character is a one-element        *)
(* string, or a code point name for the non-ASCII characters.              *)
(***************************************************************************)
EXTENDS Integers, Sequences, FiniteSets, TLC

VARIABLES
    \* parse_toc
    text,                   \* the argument of parse_toc
    lines,                  \* the raw lines the for loop has not visited yet
    current_entry_lines,    \* the buffer of title continuation lines
    entries,                \* the entries appended so far
    ppc,                    \* "loop" while in the for loop, "done" after return
    \* the 'Extract TOC' handler of main() and what it reads
    doc,                    \* the PDF at extraction_path
    poppler_exists,         \* whether pdftoppm is installed
    max_search_pages,       \* the argument of find_toc_page_indices
    extra_pages,            \* the number input of the form
    pc,                     \* the stage of the handler
    toc_indices,            \* the result of find_toc_page_indices
    final_indices,          \* the sorted expanded indices
    raw_text,               \* the text gathered for parse_toc
    toc_entries,            \* the result of parse_toc(raw_text)
    opens,                  \* how many times the PDF was opened
    stages,                 \* the stages entered so far, in order
    gathered,               \* the pages whose text was requested, in order
    \* the widgets and st.session_state
    uploaded_file,          \* the file held by the file_uploader widget
    raw_pdf_bytes,
    pdf_name,
    extracted,
    editing,
    df,
    \* the temporary files of one 'Extract TOC' submit
    file_size,              \* os.path.getsize(original_tmp_path)
    is_large_pdf,
    extraction_path,        \* the path given to the extraction
    temp_files,             \* the temporary files that exist on disk
    outcome,                \* what the try block of the handler came to
    tpc                     \* the position in the submit handler

parserVars == <<text, lines, current_entry_lines, entries, ppc>>

pipeVars == <<doc, poppler_exists, max_search_pages, extra_pages, pc,
              toc_indices, final_indices, raw_text, toc_entries, opens,
              stages, gathered>>

uiVars == <<uploaded_file, raw_pdf_bytes, pdf_name, extracted, editing, df>>

tempVars == <<file_size, is_large_pdf, extraction_path, temp_files, outcome,
              tpc>>

vars == <<text, lines, current_entry_lines, entries, ppc,
          doc, poppler_exists, max_search_pages, extra_pages, pc,
          toc_indices, final_indices, raw_text, toc_entries, opens,
          stages, gathered,
          uploaded_file, raw_pdf_bytes, pdf_name, extracted, editing, df,
          file_size, is_large_pdf, extraction_path, temp_files, outcome,
          tpc>>

----------------------------------------------------------------------------
(* Bounds of the model. *)

MaxTextLen == 4     \* longest exhaustively enumerated parse_toc argument
MaxLines == 3       \* most curated lines joined into one parse_toc argument
MaxPages == 3       \* most pages of a document
MaxExtra == 2       \* largest extra_pages entered in the form
MaxSearch == 2      \* largest small max_search_pages given to the detector
MaxAnchors == 2     \* longest anchor list given to the expansion alone
MaxAnchor == 3      \* largest anchor given to the expansion alone
MaxRows == 3        \* most rows of the table in the data editor
MaxCount == 5       \* largest page count given to the expansion alone

----------------------------------------------------------------------------
(* Characters. *)

DEVA_KA == "<U+0915>"       \* a Devanagari letter
DEVA_ONE == "<U+0967>"      \* the Devanagari digit one
ARABIC_ONE == "<U+0661>"    \* the Arabic-Indic digit one: a decimal digit
                            \* for \d, outside the Devanagari block

UpperCase == <<"A", "B", "C", "D", "E", "F", "G", "H", "I", "J", "K", "L", "M",
               "N", "O", "P", "Q", "R", "S", "T", "U", "V", "W", "X", "Y", "Z">>
LowerCase == <<"a", "b", "c", "d", "e", "f", "g", "h", "i", "j", "k", "l", "m",
               "n", "o", "p", "q", "r", "s", "t", "u", "v", "w", "x", "y", "z">>

AsciiDigits == {"0", "1", "2", "3", "4", "5", "6", "7", "8", "9"}

\* \s of re and the characters str.strip() removes
IsSpace(c) == c \in {" ", "\t", "\n"}

\* the block U+0900-U+097F of strip_hindi_chars
IsDevanagari(c) == c \in {DEVA_KA, DEVA_ONE}

\* \d of re on str patterns: every Unicode decimal digit
IsDigit(c) == c \in AsciiDigits \cup {DEVA_ONE, ARABIC_ONE}

\* the class [\s\.\-]
IsSep(c) == IsSpace(c) \/ c \in {".", "-"}

Min(S) == CHOOSE x \in S : \A y \in S : x <= y

----------------------------------------------------------------------------
(* String functions of Python used by parse_toc. *)

lower(s) ==
    [i \in 1..Len(s) |->
        IF \E k \in 1..26 : UpperCase[k] = s[i]
        THEN LowerCase[CHOOSE k \in 1..26 : UpperCase[k] = s[i]]
        ELSE s[i]]

RECURSIVE LStrip(_)
LStrip(s) ==
    IF s = <<>> THEN <<>>
    ELSE IF IsSpace(Head(s)) THEN LStrip(Tail(s)) ELSE s

RECURSIVE RStrip(_)
RStrip(s) ==
    IF s = <<>> THEN <<>>
    ELSE IF IsSpace(s[Len(s)]) THEN RStrip(SubSeq(s, 1, Len(s) - 1)) ELSE s

strip(s) == RStrip(LStrip(s))

\* text.split('\n')
RECURSIVE split(_)
split(s) ==
    LET nl == {i \in 1..Len(s) : s[i] = "\n"} IN
    IF nl = {} THEN <<s>>
    ELSE <<SubSeq(s, 1, Min(nl) - 1)>> \o split(SubSeq(s, Min(nl) + 1, Len(s)))

\* " ".join(ls)
RECURSIVE join(_)
join(ls) ==
    IF ls = <<>> THEN <<>>
    ELSE IF Len(ls) = 1 THEN ls[1]
    ELSE ls[1] \o <<" ">> \o join(Tail(ls))

\* sub in s
Contains(s, sub) ==
    \E i \in 1..(Len(s) - Len(sub) + 1) : SubSeq(s, i, i + Len(sub) - 1) = sub

strip_hindi_chars(s) == SelectSeq(s, LAMBDA c : ~IsDevanagari(c))

----------------------------------------------------------------------------
(* The regular expressions of parse_toc.  A line holds no newline, so '.'  *)
(* matches every character of it and '$' matches at its end only.          *)

\* the longest run of digits s ends with
RECURSIVE TrailingDigits(_)
TrailingDigits(s) ==
    IF s = <<>> \/ ~IsDigit(s[Len(s)]) THEN <<>>
    ELSE Append(TrailingDigits(SubSeq(s, 1, Len(s) - 1)), s[Len(s)])

\* re.search(r'\d+\s*$', s)
re_search_digits_end(s) ==
    LET w == RStrip(s) IN w # <<>> /\ IsDigit(w[Len(w)])

\* r, the rest after group 1, matches [\s\.\-]+\s*(\d+)\s*$
PrimaryTail(r) ==
    LET w == RStrip(r)
        d == TrailingDigits(w)
        s == SubSeq(w, 1, Len(w) - Len(d))
    IN  /\ d # <<>>
        /\ s # <<>>
        /\ \A i \in 1..Len(s) : IsSep(s[i])

\* r, the rest after group 1, matches (\d+)\s*$
FallbackTail(r) ==
    LET w == RStrip(r) IN
    w # <<>> /\ \A i \in 1..Len(w) : IsDigit(w[i])

NoMatch == [ok |-> FALSE, g1 |-> <<>>, g2 |-> <<>>]

\* the suffix of s after its first k characters
Rest(s, k) == SubSeq(s, k + 1, Len(s))

\* the lazy group (.*?) takes the shortest of the prefixes, of the lengths ks,
\* whose rest matches
LazyMatch(s, ks) ==
    IF ks = {} THEN NoMatch
    ELSE [ok |-> TRUE,
          g1 |-> SubSeq(s, 1, Min(ks)),
          g2 |-> TrailingDigits(RStrip(s))]

\* re.match(r'^(.*?)[\s\.\-]+\s*(\d+)\s*$', s)
re_match_primary(s) ==
    LazyMatch(s, {k \in 0..Len(s) : PrimaryTail(Rest(s, k))})

\* re.match(r'^(.*?)(\d+)\s*$', s)
re_match_fallback(s) ==
    LazyMatch(s, {k \in 0..Len(s) : FallbackTail(Rest(s, k))})

----------------------------------------------------------------------------
(* parse_toc *)

skip_terms ==
    { <<"t", "a", "b", "l", "e", " ", "o", "f", " ",
        "c", "o", "n", "t", "e", "n", "t", "s">>,
      <<"c", "o", "n", "t", "e", "n", "t", "s">>,
      <<"p", "a", "g", "e">>,
      <<"t", "o", "c">> }

HasSkipTerm(s) == \E term \in skip_terms : Contains(lower(s), term)

ParseStart == [entries |-> <<>>, current_entry_lines |-> <<>>]

\* IsBlankLine without the 'continue': no line is discarded
IsBlankLine_Never(line) == FALSE

\* the test 'if not line: continue'
IsBlankLine(line) == line = <<>>

\* the text the patterns are matched against, and the buffer after it
FullText(buf, cleaned) ==
    IF buf # <<>> THEN join(buf) \o <<" ">> \o cleaned ELSE cleaned

\* the entry of a digit-terminated candidate, as a sequence of 0 or 1 entries
MatchEntry(full_text) ==
    LET m1 == re_match_primary(full_text)
        m == IF m1.ok THEN m1 ELSE re_match_fallback(full_text)
    IN  IF m.ok
        THEN <<[chapter |-> strip(m.g1), page |-> strip(m.g2)]>>
        ELSE <<>>

\* ParseLine without 'current_entry_lines = []': the buffer is never reset
ParseLine_KeepBuffer(st, raw_line) ==
    LET line == strip(raw_line) IN
    IF IsBlankLine(line) THEN st
    ELSE
        LET cleaned == strip_hindi_chars(line) IN
        IF re_search_digits_end(cleaned)
        THEN
            LET full_text == FullText(st.current_entry_lines, cleaned) IN
            IF HasSkipTerm(full_text)
            THEN st
            ELSE [entries |-> st.entries \o MatchEntry(full_text),
                  current_entry_lines |-> st.current_entry_lines]
        ELSE [entries |-> st.entries,
              current_entry_lines |-> Append(st.current_entry_lines, cleaned)]

\* one iteration of 'for raw_line in text.split("\n")'
ParseLine(st, raw_line) ==
    LET line == strip(raw_line) IN
    IF IsBlankLine(line) THEN st
    ELSE
        LET cleaned == strip_hindi_chars(line) IN
        IF re_search_digits_end(cleaned)
        THEN
            LET full_text == FullText(st.current_entry_lines, cleaned) IN
            IF HasSkipTerm(full_text)
            THEN [entries |-> st.entries, current_entry_lines |-> <<>>]
            ELSE [entries |-> st.entries \o MatchEntry(full_text),
                  current_entry_lines |-> <<>>]
        ELSE [entries |-> st.entries,
              current_entry_lines |-> Append(st.current_entry_lines, cleaned)]

RECURSIVE ParseLines(_, _)
ParseLines(st, ls) ==
    IF ls = <<>> THEN st ELSE ParseLines(ParseLine(st, Head(ls)), Tail(ls))

parse_toc(s) == ParseLines(ParseStart, split(s)).entries

----------------------------------------------------------------------------
(* Arguments of parse_toc. *)

ParseAlphabet == {"a", " ", ".", "1", "\n", DEVA_KA}

RECURSIVE StringsUpTo(_, _)
StringsUpTo(A, n) ==
    IF n = 0 THEN {<<>>}
    ELSE LET S == StringsUpTo(A, n - 1) IN
         S \cup {Append(s, c) : s \in {t \in S : Len(t) = n - 1}, c \in A}

L_TableOfContents ==
    <<"T", "a", "b", "l", "e", " ", "o", "f", " ",
      "C", "o", "n", "t", "e", "n", "t", "s">>
L_Introduction ==
    <<"I", "n", "t", "r", "o", "d", "u", "c", "t", "i", "o", "n">>
L_ToSystems == <<"t", "o", " ", "S", "y", "s", "t", "e", "m", "s">>
L_Design == <<"D", "e", "s", "i", "g", "n", " ", ".", ".", ".", ".", " ", "1", "2">>
L_ChapterOne ==
    <<"C", "h", "a", "p", "t", "e", "r", " ", "O", "n", "e", " ",
      ".", ".", ".", ".", " ", "1">>
L_ChapterTwo ==
    <<"C", "h", "a", "p", "t", "e", "r", " ", "T", "w", "o", " ",
      ".", ".", ".", ".", " ", "1", "5">>
L_Index == <<"I", "n", "d", "e", "x", " ", "-", " ", "2", "0">>
L_Hello == <<"H", "e", "l", "l", "o", " ", "w", "o", "r", "l", "d">>
L_Dots == <<"E", "n", "d", ".", ".">>
L_Number == <<"1", "2">>
L_Arabic == <<"I", "X", " ", ARABIC_ONE>>
L_Toc == <<"T", "O", "C", " ", "3">>
L_Hindi == <<" ", DEVA_KA, DEVA_ONE>>
L_Blank == <<" ", "\t">>
L_To == <<"t", "o">>
L_C4 == <<"c", " ", "4">>

CuratedLines ==
    { L_TableOfContents, L_Introduction, L_ToSystems, L_Design, L_ChapterOne,
      L_Dots, L_Number, L_Arabic, L_Toc, L_Hindi, L_Blank, L_To, L_C4 }

\* ls joined with newlines
RECURSIVE Unlines(_)
Unlines(ls) ==
    IF ls = <<>> THEN <<>>
    ELSE IF Len(ls) = 1 THEN ls[1]
    ELSE ls[1] \o <<"\n">> \o Unlines(Tail(ls))

RECURSIVE SeqsUpTo(_, _)
SeqsUpTo(S, n) ==
    IF n = 0 THEN {<<>>}
    ELSE LET R == SeqsUpTo(S, n - 1) IN
         R \cup {Append(r, x) : r \in {t \in R : Len(t) = n - 1}, x \in S}

ParseInputs ==
    StringsUpTo(ParseAlphabet, MaxTextLen)
        \cup {Unlines(ls) : ls \in SeqsUpTo(CuratedLines, MaxLines)}

----------------------------------------------------------------------------
(* The PDF.  A page holds the text PyPDF2 extracts from it, or raises when *)
(* asked for it, and the text OCR reads from its image, or OCR raises.     *)
(* The detector rasterizes at 300 dpi and the gathering at 400 dpi with    *)
(* another page segmentation mode, so the two OCR texts may differ.        *)
(* A document that cannot be opened cannot be opened by any PdfReader.     *)

Page(native, native_raises, ocr_detect, ocr_gather, ocr_raises) ==
    [native |-> native, native_raises |-> native_raises,
     ocr_detect |-> ocr_detect, ocr_gather |-> ocr_gather,
     ocr_raises |-> ocr_raises]

\* len(reader.pages)
num_pages(d) == Len(d.pages)

\* the page text after the OCR fallback, ocr being the text OCR would read
PageText(p, ocr, poppler) ==
    IF strip(p.native) = <<>> /\ poppler
    THEN (IF p.ocr_raises THEN <<>> ELSE ocr)
    ELSE p.native

Raise == [ok |-> FALSE, text |-> <<>>, pages |-> <<>>]

----------------------------------------------------------------------------
(* find_toc_page_indices *)

MAX_SEARCH_PAGES == 20
MAX_EXTRA_PAGES == 6
MIN_ENTRIES == 2

Keyword == <<"c", "o", "n", "t", "e", "n", "t", "s">>

\* IsTocPage with the entry threshold dropped: the keyword alone decides
IsTocPage_KeywordOnly(page_text) == Contains(lower(page_text), Keyword)

\* '"contents" in lower_all' and 'len(possible_entries) >= 2'
IsTocPage(page_text) ==
    /\ Contains(lower(page_text), Keyword)
    /\ Len(parse_toc(page_text)) >= MIN_ENTRIES

\* the loop 'for i in range(search_limit)' from page i on; an exception
\* leaves the loop and the function returns []
RECURSIVE ScanPages(_, _, _, _, _)
ScanPages(d, i, search_limit, poppler, indices) ==
    IF i >= search_limit THEN indices
    ELSE LET p == d.pages[i + 1] IN
         IF p.native_raises THEN <<>>
         ELSE ScanPages(d, i + 1, search_limit, poppler,
                        IF IsTocPage(PageText(p, p.ocr_detect, poppler))
                        THEN Append(indices, i)
                        ELSE indices)

find_toc_page_indices(d, max_pages, poppler) ==
    IF ~d.openable THEN <<>>
    ELSE LET search_limit == IF num_pages(d) < max_pages
                             THEN num_pages(d) ELSE max_pages
         IN  ScanPages(d, 0, search_limit, poppler, <<>>)

----------------------------------------------------------------------------
(* The range expansion of main(). *)

\* the inner loop with 'candidate <= num_pages': one page past the end
AddOffsets_PastEnd(expanded, i, extra, n) ==
    expanded \cup {i + offset : offset \in {k \in 0..extra : i + k <= n}}

\* 'for offset in range(0, extra_pages + 1)' for the anchor i
AddOffsets(expanded, i, extra, n) ==
    expanded \cup {i + offset : offset \in {k \in 0..extra : i + k < n}}

\* 'for i in toc_indices'
RECURSIVE ExpandAnchors(_, _, _, _)
ExpandAnchors(expanded, anchors, extra, n) ==
    IF anchors = <<>> THEN expanded
    ELSE ExpandAnchors(AddOffsets(expanded, Head(anchors), extra, n),
                       Tail(anchors), extra, n)

\* sorted(S)
RECURSIVE sorted(_)
sorted(S) == IF S = {} THEN <<>> ELSE <<Min(S)>> \o sorted(S \ {Min(S)})

expanded_indices(anchors, extra, n) ==
    sorted(ExpandAnchors({}, anchors, extra, n))

----------------------------------------------------------------------------
(* Text gathering. *)

extract_page_text(d, page_num, poppler) ==
    IF ~d.openable THEN Raise
    ELSE IF page_num < num_pages(d)
    THEN LET p == d.pages[page_num + 1] IN
         IF p.native_raises THEN Raise
         ELSE [ok |-> TRUE,
               text |-> PageText(p, p.ocr_gather, poppler) \o <<"\n">>,
               pages |-> <<page_num>>]
    ELSE [ok |-> TRUE, text |-> <<"\n">>, pages |-> <<page_num>>]

\* acc is the text accumulated and the pages read before page_indices
RECURSIVE extract_text_from_pages(_, _, _, _)
extract_text_from_pages(d, page_indices, poppler, acc) ==
    IF page_indices = <<>> THEN acc
    ELSE LET r == extract_page_text(d, Head(page_indices), poppler) IN
         IF ~r.ok THEN [ok |-> FALSE, text |-> <<>>,
                        pages |-> Append(acc.pages, Head(page_indices))]
         ELSE extract_text_from_pages(d, Tail(page_indices), poppler,
                [ok |-> TRUE, text |-> acc.text \o r.text,
                 pages |-> acc.pages \o r.pages])

\* the loop 'for page_num in range(num_pages)' from page_num on
RECURSIVE AllPagesFrom(_, _, _, _)
AllPagesFrom(d, page_num, poppler, acc) ==
    IF page_num >= num_pages(d) THEN acc
    ELSE LET p == d.pages[page_num + 1] IN
         IF p.native_raises THEN [ok |-> FALSE, text |-> <<>>,
                                  pages |-> Append(acc.pages, page_num)]
         ELSE AllPagesFrom(d, page_num + 1, poppler,
                [ok |-> TRUE,
                 text |-> acc.text \o PageText(p, p.ocr_gather, poppler)
                            \o <<"\n">>,
                 pages |-> Append(acc.pages, page_num)])

NoText == [ok |-> TRUE, text |-> <<>>, pages |-> <<>>]

extract_text_from_pdf(d, poppler) ==
    IF ~d.openable THEN Raise ELSE AllPagesFrom(d, 0, poppler, NoText)

----------------------------------------------------------------------------
(* Documents. *)

L_CONTENTS == <<"C", "O", "N", "T", "E", "N", "T", "S">>
L_Ch7 == <<"C", "h", " ", "7">>
L_End9 == <<"E", "n", "d", " ", "9">>

T_Toc2 == Unlines(<<L_TableOfContents, L_ChapterOne, L_ChapterTwo>>)
T_Toc3 == Unlines(<<L_TableOfContents, L_ChapterOne, L_ChapterTwo, L_Index>>)
T_Scan300 == Unlines(<<L_CONTENTS, L_Ch7, L_End9, L_Index>>)
T_Scan400 == Unlines(<<L_CONTENTS, L_Ch7, L_End9>>)
T_Entries == Unlines(<<L_Ch7, L_End9>>)

PG_Empty == Page(<<>>, FALSE, <<>>, <<>>, FALSE)
PG_Toc2 == Page(T_Toc2, FALSE, <<>>, <<>>, FALSE)
PG_Toc3 == Page(T_Toc3, FALSE, <<>>, <<>>, FALSE)
PG_Hello == Page(L_Hello, FALSE, <<>>, <<>>, FALSE)
PG_Entries == Page(T_Entries, FALSE, <<>>, <<>>, FALSE)
PG_Scanned == Page(<<" ", "\n">>, FALSE, T_Scan300, T_Scan400, FALSE)
PG_OcrRaises == Page(<<>>, FALSE, <<>>, <<>>, TRUE)
PG_NativeRaises == Page(<<>>, TRUE, <<>>, <<>>, FALSE)

PageKinds == { PG_Empty, PG_Toc2, PG_Toc3, PG_Hello, PG_Entries, PG_Scanned,
               PG_OcrRaises, PG_NativeRaises }

Unopenable == [openable |-> FALSE, pages |-> <<>>]

Docs ==
    {[openable |-> TRUE, pages |-> ps] : ps \in SeqsUpTo(PageKinds, MaxPages)}
        \cup {Unopenable}

----------------------------------------------------------------------------
(* The whole 'Extract TOC' handler, lines 333-377, as one function. *)

Failed == [ok |-> FALSE, entries |-> <<>>]

ExtractToc(d, extra, poppler) ==
    LET anchors == find_toc_page_indices(d, MAX_SEARCH_PAGES, poppler)
        r == IF anchors # <<>>
             THEN IF d.openable
                  THEN extract_text_from_pages(d,
                          expanded_indices(anchors, extra, num_pages(d)),
                          poppler, NoText)
                  ELSE Raise
             ELSE extract_text_from_pdf(d, poppler)
    IN  IF r.ok THEN [ok |-> TRUE, entries |-> parse_toc(r.text)] ELSE Failed

----------------------------------------------------------------------------
(* The session state and one run of main() per UI event. *)

\* None, as the value of raw_pdf_bytes
None == "None"

\* the uploader holds no file
NoFile == [name |-> <<>>, bytes |-> "NoFile"]

\* df: None, or the DataFrame of the rows
NoTable == [none |-> TRUE, rows |-> <<>>]
DataFrame(rows) == [none |-> FALSE, rows |-> rows]

\* the uploaded files: a name and the bytes, named by a letter
Files ==
    { [name |-> <<"a">>, bytes |-> "A"], [name |-> <<"b">>, bytes |-> "B"],
      [name |-> <<"c">>, bytes |-> "C"], [name |-> <<"d">>, bytes |-> "D"],
      [name |-> <<"e">>, bytes |-> ""] }

\* the PDF the bytes hold
DocOf(bytes) ==
    IF bytes = "A" THEN [openable |-> TRUE, pages |-> <<PG_Toc3, PG_Entries>>]
    ELSE IF bytes = "B" THEN [openable |-> TRUE, pages |-> <<PG_Hello>>]
    ELSE IF bytes = "C" THEN [openable |-> TRUE, pages |-> <<PG_NativeRaises>>]
    ELSE Unopenable

\* the truth value of raw_pdf_bytes: None and b"" are false
Truthy(bytes) == bytes # None /\ bytes # ""

Session(raw, name, ex, ed, table) ==
    [raw_pdf_bytes |-> raw, pdf_name |-> name, extracted |-> ex,
     editing |-> ed, df |-> table]

\* UploadBlock without 'raw_pdf_bytes is None': every run stores the file
UploadBlock_Always(s, file) ==
    IF file # NoFile
    THEN [s EXCEPT !.raw_pdf_bytes = file.bytes, !.pdf_name = file.name,
                   !.extracted = FALSE]
    ELSE s

\* step 1, lines 289-294
UploadBlock(s, file) ==
    IF file # NoFile /\ s.raw_pdf_bytes = None
    THEN [s EXCEPT !.raw_pdf_bytes = file.bytes, !.pdf_name = file.name,
                   !.extracted = FALSE]
    ELSE s

\* step 2, lines 297-382: the form, when it is shown and submitted
ExtractBlock(s, click, extra, poppler) ==
    IF Truthy(s.raw_pdf_bytes) /\ ~s.extracted /\ click = "extract"
    THEN LET r == ExtractToc(DocOf(s.raw_pdf_bytes), extra, poppler) IN
         IF r.ok /\ r.entries # <<>>
         THEN [s EXCEPT !.df = DataFrame(r.entries), !.extracted = TRUE]
         ELSE s
    ELSE s

\* step 3, lines 385-389
ViewBlock(s, click) ==
    IF s.extracted /\ ~s.df.none /\ click = "edit"
    THEN [s EXCEPT !.editing = TRUE]
    ELSE s

EmptyRow == [chapter |-> <<>>, page |-> <<>>]
EditedRow == [chapter |-> <<"X">>, page |-> <<"7">>]

Edits == {"none", "delete_row", "change_row", "add_row"}

\* edited_df: the table with the pending edits of the data editor
data_editor(table, edit) ==
    IF edit = "delete_row" /\ table # <<>>
    THEN SubSeq(table, 1, Len(table) - 1)
    ELSE IF edit = "change_row" /\ table # <<>>
    THEN [table EXCEPT ![1] = EditedRow]
    ELSE IF edit = "add_row" /\ Len(table) < MaxRows
    THEN Append(table, EditedRow)
    ELSE table

\* lines 418-431: the empty row inserted at the 1-based insert_position
InsertRow(table, insert_position) ==
    LET pos == insert_position - 1 IN
    SubSeq(table, 1, pos) \o <<EmptyRow>> \o SubSeq(table, pos + 1, Len(table))

\* step 4, lines 392-445
EditBlock(s, click, edit, insert_position) ==
    IF s.editing /\ ~s.df.none
    THEN LET edited_df == data_editor(s.df.rows, edit) IN
         IF click = "insert" /\ insert_position <= Len(edited_df) + 1
         THEN [s EXCEPT !.df = DataFrame(InsertRow(edited_df, insert_position))]
         ELSE IF click = "save"
         THEN [s EXCEPT !.df = DataFrame(edited_df), !.editing = FALSE]
         ELSE IF click = "cancel"
         THEN [s EXCEPT !.editing = FALSE]
         ELSE s
    ELSE s

----------------------------------------------------------------------------
(* parse_toc as a process: one step per iteration of the loop. *)

ParserIdle ==
    /\ text = <<>>
    /\ lines = <<>>
    /\ current_entry_lines = <<>>
    /\ entries = <<>>
    /\ ppc = "idle"

PipeIdle ==
    /\ doc = Unopenable
    /\ poppler_exists = FALSE
    /\ max_search_pages = MAX_SEARCH_PAGES
    /\ extra_pages = 0
    /\ pc = "Idle"
    /\ toc_indices = <<>>
    /\ final_indices = <<>>
    /\ raw_text = <<>>
    /\ toc_entries = <<>>
    /\ opens = 0
    /\ stages = <<>>
    /\ gathered = <<>>

\* the session state initialisation of lines 255-265, no file chosen
UiStart ==
    /\ uploaded_file = NoFile
    /\ raw_pdf_bytes = None
    /\ pdf_name = <<>>
    /\ extracted = FALSE
    /\ editing = FALSE
    /\ df = NoTable

\* no submit is being handled
TempIdle ==
    /\ file_size = 0
    /\ is_large_pdf = FALSE
    /\ extraction_path = "none"
    /\ temp_files = {}
    /\ outcome = "none"
    /\ tpc = "Idle"

InitParse ==
    /\ text \in ParseInputs
    /\ lines = split(text)
    /\ current_entry_lines = <<>>
    /\ entries = <<>>
    /\ ppc = "loop"
    /\ PipeIdle
    /\ UiStart
    /\ TempIdle

ParseStep ==
    /\ ppc = "loop"
    /\ lines # <<>>
    /\ LET st == ParseLine([entries |-> entries,
                            current_entry_lines |-> current_entry_lines],
                           Head(lines))
       IN  /\ entries' = st.entries
           /\ current_entry_lines' = st.current_entry_lines
    /\ lines' = Tail(lines)
    /\ UNCHANGED <<text, ppc>>
    /\ UNCHANGED pipeVars
    /\ UNCHANGED uiVars
    /\ UNCHANGED tempVars

ParseReturn ==
    /\ ppc = "loop"
    /\ lines = <<>>
    /\ ppc' = "done"
    /\ UNCHANGED <<text, lines, current_entry_lines, entries>>
    /\ UNCHANGED pipeVars
    /\ UNCHANGED uiVars
    /\ UNCHANGED tempVars

NextParse == ParseStep \/ ParseReturn

SpecParse == InitParse /\ [][NextParse]_vars

----------------------------------------------------------------------------
(* The 'Extract TOC' handler of main(), one step per stage. *)

ExtraChoices == 0..(IF MaxExtra < MAX_EXTRA_PAGES THEN MaxExtra ELSE MAX_EXTRA_PAGES)

\* the form is submitted: the handler starts on the uploaded PDF
Init ==
    /\ ParserIdle
    /\ doc \in Docs
    /\ poppler_exists \in BOOLEAN
    /\ max_search_pages = MAX_SEARCH_PAGES
    /\ extra_pages \in ExtraChoices
    /\ pc = "Idle"
    /\ toc_indices = <<>>
    /\ final_indices = <<>>
    /\ raw_text = <<>>
    /\ toc_entries = <<>>
    /\ opens = 0
    /\ stages = <<>>
    /\ gathered = <<>>
    /\ UiStart
    /\ TempIdle

StartExtract ==
    /\ pc = "Idle"
    /\ pc' = "Detecting"
    /\ stages' = Append(stages, "Detecting")
    /\ UNCHANGED <<doc, poppler_exists, max_search_pages, extra_pages,
                   toc_indices, final_indices, raw_text, toc_entries, opens,
                   gathered>>
    /\ UNCHANGED parserVars
    /\ UNCHANGED uiVars
    /\ UNCHANGED tempVars

\* toc_indices = find_toc_page_indices(...) and the test 'if toc_indices'
Detect ==
    /\ pc = "Detecting"
    /\ toc_indices' = find_toc_page_indices(doc, max_search_pages, poppler_exists)
    /\ opens' = opens + 1
    /\ pc' = IF toc_indices' # <<>> THEN "Expanding" ELSE "TextGathering"
    /\ stages' = Append(stages, pc')
    /\ UNCHANGED <<doc, poppler_exists, max_search_pages, extra_pages,
                   final_indices, raw_text, toc_entries, gathered>>
    /\ UNCHANGED parserVars
    /\ UNCHANGED uiVars
    /\ UNCHANGED tempVars

\* the PdfReader of line 339 and the loops that build final_indices
Expand ==
    /\ pc = "Expanding"
    /\ opens' = opens + 1
    /\ IF doc.openable
       THEN /\ final_indices' = expanded_indices(toc_indices, extra_pages,
                                                 num_pages(doc))
            /\ pc' = "TextGathering"
       ELSE /\ final_indices' = final_indices
            /\ pc' = "Error"
    /\ stages' = Append(stages, pc')
    /\ UNCHANGED <<doc, poppler_exists, max_search_pages, extra_pages,
                   toc_indices, raw_text, toc_entries, gathered>>
    /\ UNCHANGED parserVars
    /\ UNCHANGED uiVars
    /\ UNCHANGED tempVars

\* extract_text_from_pages on the expanded pages, or extract_text_from_pdf
Gather ==
    /\ pc = "TextGathering"
    /\ LET r == IF toc_indices # <<>>
                THEN extract_text_from_pages(doc, final_indices,
                                             poppler_exists, NoText)
                ELSE extract_text_from_pdf(doc, poppler_exists)
       IN  /\ gathered' = r.pages
           /\ opens' = opens + (IF toc_indices # <<>> THEN Len(r.pages) ELSE 1)
           /\ raw_text' = IF r.ok THEN r.text ELSE raw_text
           /\ pc' = IF r.ok THEN "Parsing" ELSE "Error"
    /\ stages' = Append(stages, pc')
    /\ UNCHANGED <<doc, poppler_exists, max_search_pages, extra_pages,
                   toc_indices, final_indices, toc_entries>>
    /\ UNCHANGED parserVars
    /\ UNCHANGED uiVars
    /\ UNCHANGED tempVars

\* toc_entries = parse_toc(raw_text) and the test 'if toc_entries'
Parse ==
    /\ pc = "Parsing"
    /\ toc_entries' = parse_toc(raw_text)
    /\ pc' = IF toc_entries' # <<>> THEN "DoneNonEmpty" ELSE "DoneEmpty"
    /\ stages' = Append(stages, pc')
    /\ UNCHANGED <<doc, poppler_exists, max_search_pages, extra_pages,
                   toc_indices, final_indices, raw_text, opens, gathered>>
    /\ UNCHANGED parserVars
    /\ UNCHANGED uiVars
    /\ UNCHANGED tempVars

Next == StartExtract \/ Detect \/ Expand \/ Gather \/ Parse

Spec == Init /\ [][Next]_vars

----------------------------------------------------------------------------
(* find_toc_page_indices alone, on every max_search_pages. *)

SearchChoices == 0..MaxSearch \cup {MAX_SEARCH_PAGES}

InitDetect ==
    /\ ParserIdle
    /\ doc \in Docs
    /\ poppler_exists \in BOOLEAN
    /\ max_search_pages \in SearchChoices
    /\ extra_pages = 0
    /\ pc = "Detecting"
    /\ toc_indices = <<>>
    /\ final_indices = <<>>
    /\ raw_text = <<>>
    /\ toc_entries = <<>>
    /\ opens = 0
    /\ stages = <<"Detecting">>
    /\ gathered = <<>>
    /\ UiStart
    /\ TempIdle

NextDetect == Detect

SpecDetect == InitDetect /\ [][NextDetect]_vars

----------------------------------------------------------------------------
(* The range expansion alone, on every anchor list. *)

BlankDoc(n) == [openable |-> TRUE, pages |-> [i \in 1..n |-> PG_Empty]]

InitExpand ==
    /\ ParserIdle
    /\ doc \in {BlankDoc(n) : n \in 0..MaxCount}
    /\ poppler_exists = FALSE
    /\ max_search_pages = MAX_SEARCH_PAGES
    /\ extra_pages \in ExtraChoices
    /\ pc = "Expanding"
    /\ toc_indices \in SeqsUpTo(0..MaxAnchor, MaxAnchors) \ {<<>>}
    /\ final_indices = <<>>
    /\ raw_text = <<>>
    /\ toc_entries = <<>>
    /\ opens = 1
    /\ stages = <<"Detecting", "Expanding">>
    /\ gathered = <<>>
    /\ UiStart
    /\ TempIdle

NextExpand == Expand

SpecExpand == InitExpand /\ [][NextExpand]_vars

----------------------------------------------------------------------------
(* The session: one step per UI event, each a whole run of main().  A click *)
(* on a widget that the run does not render has no effect.                 *)

InitUI ==
    /\ ParserIdle
    /\ doc = Unopenable
    /\ poppler_exists \in BOOLEAN
    /\ max_search_pages = MAX_SEARCH_PAGES
    /\ extra_pages = 0
    /\ pc = "Idle"
    /\ toc_indices = <<>>
    /\ final_indices = <<>>
    /\ raw_text = <<>>
    /\ toc_entries = <<>>
    /\ opens = 0
    /\ stages = <<>>
    /\ gathered = <<>>
    /\ UiStart
    /\ TempIdle

\* one run of main(), top to bottom, with the file in the uploader and the
\* widget clicked; each block works on the session state the one before left
Rerun(file, click, extra, edit, insert_position) ==
    \E s1 \in {UploadBlock(Session(raw_pdf_bytes, pdf_name, extracted,
                                   editing, df), file)} :
    \E s2 \in {ExtractBlock(s1, click, extra, poppler_exists)} :
    \E s3 \in {ViewBlock(s2, click)} :
    \E s \in {EditBlock(s3, click, edit, insert_position)} :
        /\ uploaded_file' = file
        /\ raw_pdf_bytes' = s.raw_pdf_bytes
        /\ pdf_name' = s.pdf_name
        /\ extracted' = s.extracted
        /\ editing' = s.editing
        /\ df' = s.df
        /\ UNCHANGED parserVars
        /\ UNCHANGED pipeVars
        /\ UNCHANGED tempVars

\* the user puts a file into the uploader, replaces it or removes it
ChooseFile ==
    \E file \in Files \cup {NoFile} :
        /\ file # uploaded_file
        /\ Rerun(file, "none", 0, "none", 1)

ClickExtract ==
    \E extra \in ExtraChoices :
        Rerun(uploaded_file, "extract", extra, "none", 1)

ClickEdit == Rerun(uploaded_file, "edit", 0, "none", 1)

ClickInsert ==
    \E edit \in Edits, insert_position \in 1..MaxRows :
        /\ Len(data_editor(df.rows, edit)) < MaxRows
        /\ Rerun(uploaded_file, "insert", 0, edit, insert_position)

ClickSave == \E edit \in Edits : Rerun(uploaded_file, "save", 0, edit, 1)

ClickCancel == Rerun(uploaded_file, "cancel", 0, "none", 1)

NextUI ==
    ChooseFile \/ ClickExtract \/ ClickEdit \/ ClickInsert \/ ClickSave
        \/ ClickCancel

SpecUI == InitUI /\ [][NextUI]_vars

----------------------------------------------------------------------------
(* The temporary files of one 'Extract TOC' submit, lines 312-382: one     *)
(* step per statement that creates, reads or deletes a temporary file.     *)

\* 100 * 1024 * 1024
LARGE_PDF_BYTES == 104857600
TRUNCATE_PAGES == 70

\* the sizes of the uploaded bytes: raw_pdf_bytes is not empty when the form
\* is shown
FileSizes == {1, LARGE_PDF_BYTES, LARGE_PDF_BYTES + 1}

\* truncate_pdf: PdfReader(input_path) raises on a document that cannot be
\* opened, else the first max_pages pages are written to output_path
truncate_pdf(d, max_pages) ==
    IF ~d.openable THEN [ok |-> FALSE, doc |-> d]
    ELSE [ok |-> TRUE,
          doc |-> [openable |-> TRUE,
                   pages |-> SubSeq(d.pages, 1,
                                    Min({max_pages, num_pages(d)}))]]

\* the document at extraction_path
ExtractionDoc ==
    IF extraction_path = "truncated"
    THEN truncate_pdf(doc, TRUNCATE_PAGES).doc
    ELSE doc

\* the form is submitted with the stored bytes of a document
InitTemp ==
    /\ ParserIdle
    /\ doc \in Docs
    /\ poppler_exists \in BOOLEAN
    /\ max_search_pages = MAX_SEARCH_PAGES
    /\ extra_pages \in ExtraChoices
    /\ pc = "Idle"
    /\ toc_indices = <<>>
    /\ final_indices = <<>>
    /\ raw_text = <<>>
    /\ toc_entries = <<>>
    /\ opens = 0
    /\ stages = <<>>
    /\ gathered = <<>>
    /\ UiStart
    /\ file_size \in FileSizes
    /\ is_large_pdf = FALSE
    /\ extraction_path = "none"
    /\ temp_files = {}
    /\ outcome = "none"
    /\ tpc = "Submitted"

\* lines 315-321: the copy of the uploaded bytes, and its size
SaveUpload ==
    /\ tpc = "Submitted"
    /\ temp_files' = temp_files \cup {"original"}
    /\ is_large_pdf' = (file_size > LARGE_PDF_BYTES)
    /\ tpc' = "Saved"
    /\ UNCHANGED <<file_size, extraction_path, outcome>>
    /\ UNCHANGED parserVars
    /\ UNCHANGED pipeVars
    /\ UNCHANGED uiVars

\* lines 326-327: the empty temporary file for the truncated version
CreateTruncated ==
    /\ tpc = "Saved"
    /\ is_large_pdf
    /\ temp_files' = temp_files \cup {"truncated"}
    /\ tpc' = "Truncating"
    /\ UNCHANGED <<file_size, is_large_pdf, extraction_path, outcome>>
    /\ UNCHANGED parserVars
    /\ UNCHANGED pipeVars
    /\ UNCHANGED uiVars

\* lines 328-329: truncate_pdf is called before the try statement, so what
\* it raises leaves main()
TruncatePdf ==
    /\ tpc = "Truncating"
    /\ IF truncate_pdf(doc, TRUNCATE_PAGES).ok
       THEN extraction_path' = "truncated" /\ tpc' = "Ready"
       ELSE extraction_path' = extraction_path /\ tpc' = "Raised"
    /\ UNCHANGED <<file_size, is_large_pdf, temp_files, outcome>>
    /\ UNCHANGED parserVars
    /\ UNCHANGED pipeVars
    /\ UNCHANGED uiVars

\* line 331
UseOriginal ==
    /\ tpc = "Saved"
    /\ ~is_large_pdf
    /\ extraction_path' = "original"
    /\ tpc' = "Ready"
    /\ UNCHANGED <<file_size, is_large_pdf, temp_files, outcome>>
    /\ UNCHANGED parserVars
    /\ UNCHANGED pipeVars
    /\ UNCHANGED uiVars

\* lines 333-377: the try block and its except clause
TryExtract ==
    /\ tpc = "Ready"
    /\ \E r \in {ExtractToc(ExtractionDoc, extra_pages, poppler_exists)} :
           outcome' = IF ~r.ok THEN "error"
                      ELSE IF r.entries # <<>> THEN "entries"
                      ELSE "no_entries"
    /\ tpc' = "Finally"
    /\ UNCHANGED <<file_size, is_large_pdf, extraction_path, temp_files>>
    /\ UNCHANGED parserVars
    /\ UNCHANGED pipeVars
    /\ UNCHANGED uiVars

\* lines 378-382: the finally clause
Cleanup ==
    /\ tpc = "Finally"
    /\ temp_files' = (temp_files \ {"original"})
                        \ (IF is_large_pdf THEN {extraction_path} ELSE {})
    /\ tpc' = "Finished"
    /\ UNCHANGED <<file_size, is_large_pdf, extraction_path, outcome>>
    /\ UNCHANGED parserVars
    /\ UNCHANGED pipeVars
    /\ UNCHANGED uiVars

NextTemp ==
    \/ SaveUpload
    \/ CreateTruncated
    \/ TruncatePdf
    \/ UseOriginal
    \/ TryExtract
    \/ Cleanup

SpecTemp == InitTemp /\ [][NextTemp]_vars

----------------------------------------------------------------------------
(* Properties of parse_toc. *)

\* the line as parse_toc sees it: trimmed, Devanagari removed
Cleaned(raw_line) == strip_hindi_chars(strip(raw_line))

\* the line ends in a run of digits
EndsInDigits(cleaned) == TrailingDigits(RStrip(cleaned)) # <<>>

\* the line without the page number it ends in
BeforePage(cleaned) ==
    LET w == RStrip(cleaned) IN SubSeq(w, 1, Len(w) - Len(TrailingDigits(w)))

\* s without the separators (blanks, dots, dashes) it ends in
RECURSIVE RStripSeps(_)
RStripSeps(s) ==
    IF s = <<>> THEN <<>>
    ELSE IF IsSep(s[Len(s)]) THEN RStripSeps(SubSeq(s, 1, Len(s) - 1)) ELSE s

\* every line of the text is non-empty and holds no skip-term
NoSkipTermLines ==
    \A i \in 1..Len(split(text)) :
        /\ strip(split(text)[i]) # <<>>
        /\ ~HasSkipTerm(Cleaned(split(text)[i]))

\* the number of lines of ls that end in digits
RECURSIVE CountDigitLines(_)
CountDigitLines(ls) ==
    IF ls = <<>> THEN 0
    ELSE (IF EndsInDigits(Cleaned(Head(ls))) THEN 1 ELSE 0)
            + CountDigitLines(Tail(ls))

C2_LineStep ==
    (ppc = "loop" /\ lines # <<>> /\ NoSkipTermLines) =>
        LET cleaned == Cleaned(Head(lines)) IN
        IF EndsInDigits(cleaned)
        THEN /\ entries' = Append(entries,
                    [chapter |-> strip(RStripSeps(join(
                                    Append(current_entry_lines, BeforePage(cleaned))))),
                     page |-> TrailingDigits(RStrip(cleaned))])
             /\ current_entry_lines' = <<>>
        ELSE /\ entries' = entries
             /\ current_entry_lines' = Append(current_entry_lines, cleaned)

C2_AtEnd ==
    (ppc = "done" /\ NoSkipTermLines) =>
        Len(entries) = CountDigitLines(split(text))

\* C2: buffering law.  On non-empty lines without skip-term, a line that does
\* not end in digits is appended to the buffer and emits nothing; a line that
\* ends in digits emits exactly one entry, whose chapter is the space-join of
\* the buffered lines and of the line's text before its page number, and
\* clears the buffer; the lines left in the buffer at the end emit nothing.
C2_BufferingLaw == [][C2_LineStep]_vars /\ [](C2_AtEnd)

C2_Witness ==
    /\ ppc = "done"
    /\ text = Unlines(<<L_Introduction, L_ToSystems, L_Design>>)
    /\ entries = <<[chapter |-> join(<<L_Introduction, L_ToSystems,
                                       <<"D", "e", "s", "i", "g", "n">> >>),
                    page |-> <<"1", "2">>]>>

\* C3: entry invariant.  Every entry has a non-empty, trimmed chapter that is
\* not a skip-term and a non-empty page made of the ASCII digits 0-9 only.
C3_EntryInvariant ==
    \A i \in 1..Len(entries) :
        /\ entries[i].chapter # <<>>
        /\ strip(entries[i].chapter) = entries[i].chapter
        /\ lower(entries[i].chapter) \notin skip_terms
        /\ entries[i].page # <<>>
        /\ \A k \in 1..Len(entries[i].page) : entries[i].page[k] \in AsciiDigits

AtLeast3(raw_line) == Len(strip(raw_line)) >= 3
NotBlank(raw_line) == strip(raw_line) # <<>>

\* C9 as stated: lines of fewer than 3 characters, trimmed, are discarded, so
\* removing them from the input never changes the returned entries.
C9_MinLength3 ==
    ppc = "done" =>
        entries = parse_toc(Unlines(SelectSeq(split(text), AtLeast3)))

C9_BlankStep ==
    (ppc = "loop" /\ lines # <<>> /\ ~NotBlank(Head(lines))) =>
        /\ entries' = entries
        /\ current_entry_lines' = current_entry_lines

C9_AtEnd ==
    ppc = "done" =>
        entries = parse_toc(Unlines(SelectSeq(split(text), NotBlank)))

\* C9 amended: the lines discarded are those of trimmed length 0 only.  Such a
\* line is neither buffered nor able to emit an entry, so removing all of them
\* from the input never changes the returned entries.
C9_BlankLinesOnly == [][C9_BlankStep]_vars /\ [](C9_AtEnd)

\* a blank line between two lines of an input that yields an entry, and a
\* line of fewer than 3 characters that was not discarded
C9_Witness ==
    /\ ppc = "done"
    /\ entries # <<>>
    /\ \E i \in 2..(Len(split(text)) - 1) : ~NotBlank(split(text)[i])
    /\ \E i \in 1..Len(split(text)) :
        NotBlank(split(text)[i]) /\ ~AtLeast3(split(text)[i])

----------------------------------------------------------------------------
(* Properties of the detector, the expansion and the handler. *)

Done == {"DoneEmpty", "DoneNonEmpty"}

\* the detector has returned
Detected == pc \notin {"Idle", "Detecting"}

\* the number of pages the detector scans
SearchLimit ==
    IF num_pages(doc) < max_search_pages THEN num_pages(doc)
    ELSE max_search_pages

E_ChapterOne ==
    [chapter |-> <<"C", "h", "a", "p", "t", "e", "r", " ", "O", "n", "e">>,
     page |-> <<"1">>]
E_ChapterTwo ==
    [chapter |-> <<"C", "h", "a", "p", "t", "e", "r", " ", "T", "w", "o">>,
     page |-> <<"1", "5">>]
E_Index == [chapter |-> <<"I", "n", "d", "e", "x">>, page |-> <<"2", "0">>]

\* the entry lines written on a contents page
WrittenEntries(p) ==
    IF p = PG_Toc2 THEN <<E_ChapterOne, E_ChapterTwo>>
    ELSE <<E_ChapterOne, E_ChapterTwo, E_Index>>

\* page i (from 0) is the only contents page of the document: "Table of
\* Contents" and n >= 2 entry lines; the other pages hold nothing like it
OnlyTocPage(i) ==
    /\ doc.openable
    /\ i < SearchLimit
    /\ doc.pages[i + 1] \in {PG_Toc2, PG_Toc3}
    /\ \A j \in 0..(num_pages(doc) - 1) :
        j # i => doc.pages[j + 1] \in {PG_Empty, PG_Hello}

\* C1: end to end.  When one page within the searched pages holds "Table of
\* Contents" followed by n >= 2 entry lines and no other page holds text like
\* a table of contents, the detector flags that page only and the handler
\* returns exactly the n entries, in line order.
C1_EndToEnd ==
    \A i \in 0..(num_pages(doc) - 1) :
        OnlyTocPage(i) =>
            /\ Detected => toc_indices = <<i>>
            /\ pc # "Error"
            /\ pc \in Done => toc_entries = WrittenEntries(doc.pages[i + 1])

\* the text of page i for the detector when a failure counts as no text
DegradedText(i) ==
    LET p == doc.pages[i + 1] IN
    IF p.native_raises THEN <<>>
    ELSE PageText(p, p.ocr_detect, poppler_exists)

\* C4: per-page degradation.  A page whose text cannot be obtained counts as
\* an empty page: the handler goes on with the other pages, is never aborted
\* by it, and keeps the anchors found on the other pages.
C4_PerPageDegradation ==
    doc.openable =>
        /\ pc # "Error"
        /\ Detected =>
            toc_indices = sorted({i \in 0..(SearchLimit - 1) :
                                    IsTocPage(DegradedText(i))})

\* C5: fatal extraction error.  When the document cannot be opened, the
\* handler ends with the extraction error: the failure is not taken for 'no
\* anchors found', no text is gathered or parsed, and the document is not
\* opened a second time.
C5_FatalError ==
    ~doc.openable =>
        /\ pc \notin {"TextGathering", "Parsing", "DoneEmpty", "DoneNonEmpty"}
        /\ Detected => pc = "Error"
        /\ opens <= 1

\* the indices i + k, 0 <= k <= extra_pages, of the anchors i, below the
\* page count
ExpandedSet ==
    {j \in {toc_indices[a] + k : a \in 1..Len(toc_indices), k \in 0..extra_pages} :
        j < num_pages(doc)}

Ascending(q) == \A a, b \in 1..Len(q) : a < b => q[a] < q[b]

\* C6: range expansion.  The final index list holds exactly the indices i + k
\* with i an anchor, 0 <= k <= extraPages and i + k < pageCount, without
\* duplicates and in ascending order.
C6_RangeExpansion ==
    (pc = "TextGathering" /\ toc_indices # <<>>) =>
        /\ {final_indices[a] : a \in 1..Len(final_indices)} = ExpandedSet
        /\ Ascending(final_indices)

\* anchors {2,3} with extraPages 1 give [2,3,4]
C6_Witness ==
    /\ pc = "TextGathering"
    /\ toc_indices = <<2, 3>>
    /\ extra_pages = 1
    /\ num_pages(doc) = 5
    /\ final_indices = <<2, 3, 4>>

NoPageFails ==
    /\ doc.openable
    /\ \A i \in 1..num_pages(doc) :
        ~doc.pages[i].native_raises /\ ~doc.pages[i].ocr_raises

\* the text the detector reads on page i
DetectText(i) == PageText(doc.pages[i + 1], doc.pages[i + 1].ocr_detect,
                          poppler_exists)

HasKeyword(i) == Contains(lower(DetectText(i)), Keyword)

\* C7: detector threshold.  When no page fails, the detector returns, in
\* ascending order, exactly the pages below min(pageCount, maxSearchPages)
\* whose text holds "contents" in any case and parses, alone, to at least 2
\* entries: a keyword page of 1 entry is left out, and the pages after the
\* first match are scanned too.
C7_DetectorThreshold ==
    (Detected /\ NoPageFails) =>
        /\ \A i \in 0..(num_pages(doc) - 1) :
            (\E a \in 1..Len(toc_indices) : toc_indices[a] = i)
                <=> /\ i < SearchLimit
                    /\ HasKeyword(i)
                    /\ Len(parse_toc(DetectText(i))) >= 2
        /\ \A a \in 1..Len(toc_indices) : toc_indices[a] < num_pages(doc)
        /\ Ascending(toc_indices)

\* two pages are flagged, one after the other, and a searched keyword page
\* of exactly 1 entry is not
C7_Witness ==
    /\ Detected
    /\ NoPageFails
    /\ Len(toc_indices) >= 2
    /\ \E i \in 0..(SearchLimit - 1) :
        /\ HasKeyword(i)
        /\ Len(parse_toc(DetectText(i))) = 1
        /\ \A a \in 1..Len(toc_indices) : toc_indices[a] # i

\* the stages of a run that found anchors, or none, up to Parsing
StagesInOrder ==
    IF toc_indices # <<>>
    THEN <<"Detecting", "Expanding", "TextGathering", "Parsing">>
    ELSE <<"Detecting", "TextGathering", "Parsing">>

AllPages == [i \in 1..num_pages(doc) |-> i - 1]

\* C8: pipeline ordering and no-anchor fallback.  In a run on a document that
\* opens, the stages come in the order Detecting, Expanding (with anchors
\* only), TextGathering, Parsing, Done; the text is gathered from exactly the
\* expanded indices when there are anchors and from every page when there is
\* none, in ascending order; parse_toc runs once, and the run ends in Done.
C8_PipelineOrder ==
    doc.openable =>
        /\ Len(stages) <= Len(StagesInOrder) + 1
        /\ \A k \in 1..Len(stages) :
            IF k <= Len(StagesInOrder) THEN stages[k] = StagesInOrder[k]
            ELSE stages[k] \in Done
        /\ pc \in {"Parsing"} \cup Done =>
            gathered = IF toc_indices # <<>> THEN sorted(ExpandedSet)
                       ELSE AllPages
        /\ pc # "Error"

----------------------------------------------------------------------------
(* Properties of the session state. *)

C10_FileKept ==
    raw_pdf_bytes # None =>
        raw_pdf_bytes' = raw_pdf_bytes /\ pdf_name' = pdf_name

C10_ExtractedKept == extracted => extracted'

C10_Editing == editing => (extracted /\ ~df.none)

\* C10: session state.  Once the first uploaded file is stored, no UI event
\* changes raw_pdf_bytes or pdf_name (later uploads are ignored), extracted
\* never goes back from True to False, and editing = True implies extracted =
\* True and df is not None.
C10_SessionState ==
    [][C10_FileKept /\ C10_ExtractedKept]_vars /\ [](C10_Editing)

\* the table is being edited while the uploader holds another file than the
\* one stored
C10_Witness ==
    /\ editing
    /\ extracted
    /\ uploaded_file # NoFile
    /\ uploaded_file.bytes # raw_pdf_bytes
    /\ ~df.none

----------------------------------------------------------------------------
(* Properties of the temporary files. *)

\* the submit handler is over: it ran to its end, or an exception left it
HandlerOver == tpc \in {"Finished", "Raised"}

\* C11: temporary files.  Every temporary file created by an 'Extract TOC'
\* submit (the copy of the uploaded PDF and, for PDFs over 100 MB, the
\* truncated copy) has been deleted by the time the submit handler finishes,
\* whether extraction yields entries, yields none, or fails with an error at
\* any step, truncation included.
C11_TempFilesDeleted == HandlerOver => temp_files = {}

\* the same, for the submits whose truncation step does not raise
C11_DeletedAfterTry == tpc = "Finished" => temp_files = {}

\* a large PDF went through truncation and extraction, and the finally clause
\* has run
C11_LargeCleaned ==
    /\ tpc = "Finished"
    /\ is_large_pdf
    /\ extraction_path = "truncated"
    /\ outcome = "error"

====
